---- MODULE Spec2Model ----
(***************************************************************************)
(* Indexing-and-search core of the Pinpointer app.                         *)
(*   Database.ts      : document_index / fts_index, indexDocument,         *)
(*                       searchDocuments, clearIndex                       *)
(*   GallerySync.ts   : performFullGallerySync and its persisted cursor    *)
(*   usePinpointer.ts : runSync, handlePauseSync, handleResumeSync         *)
(*   SyncProgressCard : handlePress                                        *)
(* Text is a sequence of one-character strings.                            *)
(***************************************************************************)
EXTENDS Integers, Sequences, FiniteSets, TLC

VARIABLES
    document_index,   \* rows of the table document_index
    fts_index,        \* rows of the virtual table fts_index
    nextId,           \* next AUTOINCREMENT id of document_index
    ftsAvailable,     \* _ftsAvailable
    lastUpsert,       \* history: path -> arguments of the last successful upsert
    lastSearch,       \* the searchDocuments call just made on this store, and its result
    kvCursor,         \* AsyncStorage value of gallery_sync_cursor (NoCursor: key absent)
    android,          \* Platform.OS === 'android'
    galleryCount,     \* number of photos CameraRoll enumerates (static)
    cancelRef,        \* cancelRef.current
    isSyncing,        \* usePinpointer state
    isPaused,         \* usePinpointer state
    syncCount,        \* usePinpointer state
    runs,             \* the runSync / handleResumeSync invocations in flight
    lastEnded,        \* history: the invocation that ended last
    endedCount,       \* history: number of invocations that ended
    outcomes,         \* history: the ways invocations ended so far, and whether
                      \* one returned or threw with part of its page handled
    extractCount,     \* history: TextRecognition.recognize calls per item in this process
    handled,          \* history: items some run has handled (upserted or skipped)
    storeFaults,      \* storage errors still to come in this behaviour
    isDbReady,        \* the isDbReady argument of useSearch
    searchText,       \* useSearch state
    debouncedSearchText, \* useSearch state
    searchResults,    \* useSearch state
    isSearchPending,  \* useSearch state
    timers,           \* the timeouts of useSearch that are set and not yet fired or cleared
    searchTimer,      \* the timer the cleanup of the search effect holds
    historyTimer,     \* the timer the cleanup of the history effect holds
    unchangedFor,     \* history: milliseconds since searchText changed last
    lastSave,         \* history: the arguments of the last saveSearch call
    clearedKinds,     \* history: the effects whose cleanup cleared a pending timer
    historyStore,     \* the persisted search history, newest first
    searchHistory,    \* useSearch state
    historyOps        \* the history operations of useSearch that are awaiting storage

dbVars == <<document_index, fts_index, nextId, ftsAvailable>>
dbHist == <<lastUpsert, lastSearch>>
uiVars == <<cancelRef, isSyncing, isPaused, syncCount>>
envVars == <<android, galleryCount>>
ended == <<lastEnded, endedCount, outcomes>>
syncHist == <<lastEnded, endedCount, outcomes, extractCount, handled, storeFaults>>
histVars == <<historyStore, searchHistory, historyOps>>
searchVars == <<isDbReady, searchText, debouncedSearchText, searchResults, isSearchPending,
                timers, searchTimer, historyTimer, unchangedFor, lastSave, clearedKinds,
                historyStore, searchHistory, historyOps>>
syncVars == <<kvCursor, android, galleryCount, cancelRef, isSyncing, isPaused, syncCount, runs,
              lastEnded, endedCount, outcomes, extractCount, handled, storeFaults>>
vars == <<document_index, fts_index, nextId, ftsAvailable, lastUpsert, lastSearch,
          kvCursor, android, galleryCount, cancelRef, isSyncing, isPaused, syncCount, runs,
          lastEnded, endedCount, outcomes, extractCount, handled, storeFaults,
          isDbReady, searchText, debouncedSearchText, searchResults, isSearchPending,
          timers, searchTimer, historyTimer, unchangedFor, lastSave, clearedKinds,
          historyStore, searchHistory, historyOps>>

\* ------------------------------------------------------------------ bounds
MaxId == 4            \* ids handed out in the store specification
NumItems == 12        \* photos in the largest gallery (a static enumeration)
UiItems == 2          \* photos in the gallery when taps overlap invocations
MaxRuns == 3          \* runSync invocations in one behaviour
MaxConcurrent == 2    \* runSync invocations in flight at once
MaxUiRuns == 2        \* runSync invocations in one behaviour with overlapping taps
ScanItems == 4        \* photos in the gallery when photos are also scanned by hand
MaxScanRuns == 2      \* runSync invocations in one behaviour with manual scans
MaxScans == 1         \* documents of manual scans in the store at once
MaxStoreFaults == 1   \* statements of the store that fail in one behaviour
MaxHistory == 2       \* entries the persisted search history keeps
MaxHistoryOps == 2    \* history operations awaiting storage when the user taps another

\* ------------------------------------------------------------------ text
None == "none"

WhiteSpace == {" "}
UpperCase == {"A", "B", "C", "T"}
LowerCase == {"a", "b", "c", "t"}
Digits == {"0", "1"}
\* JavaScript \w without the u flag: [A-Za-z0-9_]
WordChars == UpperCase \cup LowerCase \cup Digits \cup {"_"}
\* unicode61 token characters: letters and digits (Devanagari letters included)
Devanagari == {"u0915", "u092E"}
TokenChars == UpperCase \cup LowerCase \cup Digits \cup Devanagari

Lower(c) ==
    CASE c = "A" -> "a"
      [] c = "B" -> "b"
      [] c = "C" -> "c"
      [] c = "T" -> "t"
      [] OTHER -> c

LowerText(s) == [i \in 1..Len(s) |-> Lower(s[i])]

RECURSIVE TrimStart(_)
TrimStart(s) ==
    IF s # <<>> /\ Head(s) \in WhiteSpace THEN TrimStart(Tail(s)) ELSE s

RECURSIVE TrimEnd(_)
TrimEnd(s) ==
    IF s # <<>> /\ s[Len(s)] \in WhiteSpace
    THEN TrimEnd(SubSeq(s, 1, Len(s) - 1))
    ELSE s

\* String.prototype.trim
Trim(s) == TrimEnd(TrimStart(s))

\* s.replace(/[^\w\s-]/g, '')
RECURSIVE StripSpecial(_)
StripSpecial(s) ==
    IF s = <<>> THEN <<>>
    ELSE IF Head(s) \in WordChars \cup WhiteSpace \cup {"-"}
         THEN <<Head(s)>> \o StripSpecial(Tail(s))
         ELSE StripSpecial(Tail(s))

IsPrefix(p, s) == Len(p) <= Len(s) /\ SubSeq(s, 1, Len(p)) = p

\* q occurs in s as a literal substring
Contains(s, q) ==
    \E i \in 0..(Len(s) - Len(q)) : SubSeq(s, i + 1, i + Len(q)) = q

\* ------------------------------------------------------------------ SQLite
\* unicode61: maximal runs of token characters, case-folded
RECURSIVE Tokens(_, _)
Tokens(s, cur) ==
    IF s = <<>> THEN (IF cur = <<>> THEN <<>> ELSE <<cur>>)
    ELSE IF Head(s) \in TokenChars
         THEN Tokens(Tail(s), Append(cur, Lower(Head(s))))
         ELSE (IF cur = <<>> THEN <<>> ELSE <<cur>>) \o Tokens(Tail(s), <<>>)

Tokenize(s) == Tokens(s, <<>>)

\* fts_index MATCH '"phrase"*': the phrase's tokens occur consecutively in the
\* content, the last one as a prefix; a phrase without tokens matches nothing
FtsMatch(content, phrase) ==
    LET q == Tokenize(phrase)
        d == Tokenize(content)
        k == Len(q)
    IN  /\ k > 0
        /\ \E p \in 1..(Len(d) - k + 1) :
              /\ \A j \in 1..(k - 1) : d[p + j - 1] = q[j]
              /\ IsPrefix(q[k], d[p + k - 1])

\* content LIKE pattern COLLATE NOCASE: % any run, _ any one character
RECURSIVE LikeMatch(_, _)
LikeMatch(p, s) ==
    IF p = <<>> THEN s = <<>>
    ELSE IF Head(p) = "%"
         THEN LikeMatch(Tail(p), s) \/ (s # <<>> /\ LikeMatch(p, Tail(s)))
         ELSE /\ s # <<>>
              /\ (Head(p) = "_" \/ Lower(Head(p)) = Lower(Head(s)))
              /\ LikeMatch(Tail(p), Tail(s))

\* the store as one value: the two tables and the AUTOINCREMENT counter
Db(rows, fts, id) == [rows |-> rows, fts |-> fts, nextId |-> id]

\* the triggers fts_insert / fts_delete exist when the fts table was created
\* DELETE FROM document_index WHERE filePath = ?  (AFTER DELETE trigger)
SqlDelete(db, hasFts, path) ==
    LET gone == {d \in db.rows : d.filePath = path}
    IN  [db EXCEPT !.rows = db.rows \ gone,
                   !.fts = IF hasFts
                           THEN {f \in db.fts : \A d \in gone : f.rowid # d.id}
                           ELSE db.fts]

NewRow(db, text, path, category, detectionType) ==
    [id |-> db.nextId, content |-> Trim(text), filePath |-> path,
     category |-> category, detection_type |-> detectionType]

\* INSERT INTO document_index ... (AFTER INSERT trigger); filePath is UNIQUE:
\* a second row for a path is a constraint failure and leaves the store alone
SqlInsert(db, hasFts, text, path, category, detectionType) ==
    LET row == NewRow(db, text, path, category, detectionType)
    IN  IF \E d \in db.rows : d.filePath = path
        THEN db
        ELSE [rows |-> db.rows \cup {row},
              fts |-> IF hasFts
                      THEN db.fts \cup {[rowid |-> row.id, content |-> row.content,
                                         filePath |-> row.filePath]}
                      ELSE db.fts,
              nextId |-> db.nextId + 1]

\* mutant: INSERT OR IGNORE, which keeps the row in conflict
SqlInsertOrIgnore(db, text, path, category, detectionType) ==
    LET row == NewRow(db, text, path, category, detectionType)
    IN  IF \E d \in db.rows : d.filePath = path
        THEN db
        ELSE [db EXCEPT !.rows = db.rows \cup {row}, !.nextId = db.nextId + 1]

\* INSERT OR REPLACE INTO document_index ...: the row in conflict on filePath
\* is removed, then the new row is inserted
SqlInsertOrReplace(db, text, path, category, detectionType) ==
    LET row == NewRow(db, text, path, category, detectionType)
    IN  [db EXCEPT !.rows = {d \in db.rows : d.filePath # path} \cup {row},
                   !.nextId = db.nextId + 1]

\* the statement of indexDocument at which db.execute may throw
IndexFailPoints(hasFts) ==
    IF hasFts THEN {"none", "delete", "insert"} ELSE {"none", "insert"}

\* mutant: INSERT OR REPLACE also when FTS5 is available; the replaced row goes
\* without the fts_delete trigger and the new one without an fts_index entry
IndexDocumentReplaces(db, hasFts, text, path, category, detectionType, failAt) ==
    IF failAt # "none" THEN db
    ELSE SqlInsertOrReplace(db, text, path, category, detectionType)

\* indexDocument(text, path, category, detectionType); failAt names the
\* statement that throws (the catch logs and returns)
IndexDocument(db, hasFts, text, path, category, detectionType, failAt) ==
    IF hasFts
    THEN IF failAt = "delete" THEN db
         ELSE LET afterDelete == SqlDelete(db, hasFts, path)
              IN  IF failAt = "insert" THEN afterDelete
                  ELSE SqlInsert(afterDelete, hasFts, text, path, category,
                                 detectionType)
    ELSE IF failAt = "insert" THEN db
         ELSE SqlInsertOrReplace(db, text, path, category, detectionType)

\* mutant: the lookup never finds the row
IsFileIndexedNever(db, path, fails) == FALSE

\* isFileIndexed(path); a failing lookup answers false
IsFileIndexed(db, path, fails) ==
    ~fails /\ \E d \in db.rows : d.filePath = path

ClearFailPoints(hasFts) ==
    IF hasFts THEN {"none", "delete", "ftsdelete"} ELSE {"none", "delete"}

\* clearIndex(): DELETE FROM document_index fires fts_delete for every row,
\* then DELETE FROM fts_index in its own try
ClearIndex(db, hasFts, failAt) ==
    IF failAt = "delete" THEN db
    ELSE LET cleared == [db EXCEPT !.rows = {},
                                   !.fts = IF hasFts
                                           THEN {f \in db.fts :
                                                   \A d \in db.rows : f.rowid # d.id}
                                           ELSE db.fts]
         IN  IF hasFts /\ failAt # "ftsdelete"
             THEN [cleared EXCEPT !.fts = {}]
             ELSE cleared

\* getIndexedCount()
GetIndexedCount(db, fails) == IF fails THEN 0 ELSE Cardinality(db.rows)

SEARCH_LIMIT == 50

\* LIMIT 50
Limit(rows) ==
    IF Cardinality(rows) <= SEARCH_LIMIT THEN rows
    ELSE CHOOSE s \in SUBSET rows : Cardinality(s) = SEARCH_LIMIT

SearchFailPoints(hasFts) ==
    IF hasFts THEN {"none", "fts", "like"} ELSE {"none", "like"}

\* rows of the MATCH query joined to document_index
FtsRows(db, safeQuery) ==
    Limit({d \in db.rows :
             \E f \in db.fts : f.rowid = d.id /\ FtsMatch(f.content, safeQuery)})

\* rows of the LIKE query
LikeRows(db, trimmed) ==
    Limit({d \in db.rows : LikeMatch(<<"%">> \o trimmed \o <<"%">>, d.content)})

\* searchDocuments(query); failAt names the query that throws
SearchDocuments(db, hasFts, query, failAt) ==
    LET trimmed == Trim(query)
        safeQuery == Trim(StripSpecial(trimmed))
        ftsRows == IF hasFts /\ safeQuery # <<>> /\ failAt # "fts"
                   THEN FtsRows(db, safeQuery)
                   ELSE {}
    IN  IF trimmed = <<>> THEN {}
        ELSE IF ftsRows # {} THEN ftsRows
        ELSE IF failAt = "like" THEN {}
        ELSE LikeRows(db, trimmed)

\* ------------------------------------------------------------------ gallery sync
BATCH_SIZE == 10
NoCursor == 0         \* undefined / key absent; a cursor is the position of the
                      \* last item of the page it ends

RunIds == 1..MaxConcurrent
Items == 1..NumItems

Sentinel == <<"i", "m", "a", "g", "e">>
ShortText == <<"c", "a", "t">>
HindiText == <<"u0915", "u092E", " ", "u0915", "u092E", " ", "u0915", "u092E", " ",
               "u0915", "u092E", " ", "u0915", "u092E", "u0915">>
LatinText == <<"a", "b", "c", " ", "a", "b", "c", " ", "a", "b", "c", " ", "a", "b", "c">>
Keywords == <<"k", "a", "m">>
ENRICH_MIN == 15

\* texts with surrounding whitespace: 17 characters of which 15 remain after
\* trim, and 15 characters of which 14 remain
PaddedHindiText == <<" ">> \o HindiText \o <<" ">>
NearHindiText == SubSeq(HindiText, 1, 14) \o <<" ">>
PaddedShortText == <<" ", "a", " ">>
BlankText == <<" ", " ">>

\* TextRecognition.recognize(uri) of the static gallery: what each photo yields
Recognize(uri) ==
    LET m == uri % 12
    IN  CASE m \in {1, 7} -> [throws |-> FALSE, text |-> ShortText]
          [] m = 2 -> [throws |-> FALSE, text |-> PaddedHindiText]
          [] m \in {3, 9} -> [throws |-> TRUE, text |-> <<>>]
          [] m = 4 -> [throws |-> FALSE, text |-> <<>>]
          [] m \in {5, 11} -> [throws |-> FALSE, text |-> BlankText]
          [] m = 8 -> [throws |-> FALSE, text |-> PaddedShortText]
          [] m = 10 -> [throws |-> FALSE, text |-> NearHindiText]
          [] OTHER -> [throws |-> FALSE, text |-> LatinText]

\* containsHindi(text)
ContainsHindi(text) == \E i \in 1..Len(text) : text[i] \in Devanagari

\* enrichHindiText(hindiText): the keywords, '' when RunAnywhere.generate fails
EnrichHindiText(hindiText, generateFails) ==
    IF generateFails THEN <<>> ELSE Trim(Keywords)

\* mutant: nothing is returned when RunAnywhere.generate fails
BuildIndexableContentDropsText(rawText, generateFails) ==
    IF Trim(rawText) = <<>> \/ generateFails THEN <<>>
    ELSE IF ContainsHindi(rawText)
         THEN Trim(rawText \o <<" ">> \o EnrichHindiText(rawText, generateFails))
         ELSE rawText

\* buildIndexableContent(rawText)
BuildIndexableContent(rawText, generateFails) ==
    IF Trim(rawText) = <<>> THEN <<>>
    ELSE IF ContainsHindi(rawText)
         THEN Trim(rawText \o <<" ">> \o EnrichHindiText(rawText, generateFails))
         ELSE rawText

Min(a, b) == IF a <= b THEN a ELSE b

\* CameraRoll on Android reports end_cursor only with has_next_page, on iOS
\* with every page that has photos
endCursorOnLast == ~android

\* CameraRoll.getPhotos({first: BATCH_SIZE, after}) on the static gallery
GetPhotos(after) ==
    LET n == IF after >= galleryCount THEN 0 ELSE Min(BATCH_SIZE, galleryCount - after)
        more == after + n < galleryCount
    IN  [edges |-> [j \in 1..n |-> after + j],
         has_next_page |-> more,
         end_cursor |-> IF n > 0 /\ (more \/ endCursorOnLast)
                        THEN after + n ELSE NoCursor]

IdleRun ==
    [pc |-> "idle", fromCursor |-> NoCursor, after |-> NoCursor,
     hasNextPage |-> TRUE, totalProcessed |-> 0, edges |-> <<>>, idx |-> 0,
     pageHasNext |-> FALSE, pageEnd |-> NoCursor, rawText |-> <<>>,
     start |-> NoCursor, fetched |-> <<>>, progress |-> <<>>]

\* performFullGallerySync is executing
SyncPcs == {"loadCursor", "fetching", "recognizing", "enriching", "cancelSaving",
            "pageSaving", "sleeping", "clearing", "errorSaving"}
\* runSync or handleResumeSync is suspended before the call
PrePcs == {"resumeLoad", "permission"}

ActiveRuns == {r \in RunIds : runs[r].pc \in SyncPcs}
InFlight == {r \in RunIds : runs[r].pc # "idle"}
AllIdle == InFlight = {}
FreeSlot == CHOOSE r \in RunIds : runs[r].pc = "idle" /\ \A q \in 1..(r - 1) : runs[q].pc # "idle"
CanInvoke ==
    /\ \E r \in RunIds : runs[r].pc = "idle"
    /\ endedCount + Cardinality(InFlight) < MaxRuns

NoEnd ==
    [outcome |-> "none", processed |-> 0, start |-> NoCursor, fetched |-> <<>>,
     after |-> NoCursor, at |-> "idle", inPage |-> 0,
     hasNextPage |-> TRUE, emptyPage |-> TRUE, cursor |-> NoCursor,
     progress |-> <<>>]

\* the state of the app right after launch with the store set up
SyncIdle ==
    /\ kvCursor = NoCursor
    /\ android = FALSE
    /\ galleryCount = 0
    /\ cancelRef = FALSE
    /\ isSyncing = FALSE
    /\ isPaused = FALSE
    /\ syncCount = 0
    /\ runs = [r \in RunIds |-> IdleRun]
    /\ lastEnded = NoEnd
    /\ endedCount = 0
    /\ outcomes = {}
    /\ extractCount = [i \in Items |-> 0]
    /\ handled = {}
    /\ storeFaults = 0

NoTimer == [kind |-> None, text |-> <<>>]
NoSave == [called |-> FALSE, query |-> <<>>, resultCount |-> 0]

\* useSearch as mounted: the useState initial values, no timeout set
SearchIdle ==
    /\ isDbReady = FALSE
    /\ searchText = <<>>
    /\ debouncedSearchText = <<>>
    /\ searchResults = {}
    /\ isSearchPending = FALSE
    /\ timers = {}
    /\ searchTimer = NoTimer
    /\ historyTimer = NoTimer
    /\ unchangedFor = 0
    /\ lastSave = NoSave
    /\ clearedKinds = {}
    /\ historyStore = <<>>
    /\ searchHistory = <<>>
    /\ historyOps = {}

\* ------------------------------------------------------------------ store specification
DbPaths == {"p1", "p2"}
DbTexts == { <<"a", "t">>, <<"c", "a", "t">>, <<" ", "a", ".", "t", " ">>,
             <<"A", "t", " ", "b">> }
DbQueries == { <<"a", "t">>, <<" ", "a", ".", "t">>, <<"t", " ", "b">>,
               <<" ", " ">>, <<"a", "_", "t">> }
DbMeta == { <<"Gallery Sync", "TEXT">>, <<"Manual Scan", "TEXT">>,
            <<"General", "EMPTY">> }

NoUpsert == [present |-> FALSE, content |-> <<>>, category |-> None,
             detection_type |-> None]
NoSearch == [called |-> FALSE, query |-> <<>>, failAt |-> "none", result |-> {}]

TheDb == Db(document_index, fts_index, nextId)

SetDb(db) ==
    /\ document_index' = db.rows
    /\ fts_index' = db.fts
    /\ nextId' = db.nextId

\* the store after setupDatabase(): empty tables, FTS5 compiled in or not
DbInit ==
    /\ document_index = {}
    /\ fts_index = {}
    /\ nextId = 1
    /\ ftsAvailable \in BOOLEAN
    /\ lastUpsert = [p \in DbPaths |-> NoUpsert]
    /\ lastSearch = NoSearch
    /\ SyncIdle
    /\ SearchIdle

DbIndexDocument ==
    \E text \in DbTexts, path \in DbPaths, meta \in DbMeta,
       failAt \in IndexFailPoints(ftsAvailable) :
        /\ nextId <= MaxId
        /\ SetDb(IndexDocument(TheDb, ftsAvailable, text, path, meta[1], meta[2],
                               failAt))
        /\ lastUpsert' = IF failAt = "none"
                         THEN [lastUpsert EXCEPT
                                 ![path] = [present |-> TRUE, content |-> Trim(text),
                                            category |-> meta[1],
                                            detection_type |-> meta[2]]]
                         ELSE lastUpsert
        /\ lastSearch' = NoSearch
        /\ UNCHANGED <<ftsAvailable, syncVars, searchVars>>

DbClearIndex ==
    \E failAt \in ClearFailPoints(ftsAvailable) :
        /\ SetDb(ClearIndex(TheDb, ftsAvailable, failAt))
        /\ lastUpsert' = IF failAt = "delete" THEN lastUpsert
                         ELSE [p \in DbPaths |-> NoUpsert]
        /\ lastSearch' = NoSearch
        /\ UNCHANGED <<ftsAvailable, syncVars, searchVars>>

DbSearchDocuments ==
    \E query \in DbQueries, failAt \in SearchFailPoints(ftsAvailable) :
        /\ lastSearch' = [called |-> TRUE, query |-> query, failAt |-> failAt,
                          result |-> SearchDocuments(TheDb, ftsAvailable, query,
                                                     failAt)]
        /\ UNCHANGED <<dbVars, lastUpsert, syncVars, searchVars>>

DbNext == DbIndexDocument \/ DbClearIndex \/ DbSearchDocuments

SpecDb == DbInit /\ [][DbNext]_vars

\* C1: the Document table holds at most one row per path, and that row has the
\* content, category and kind of the most recent successful upsert of the path
C1_OneRowPerPath ==
    \A p \in DbPaths :
        /\ Cardinality({d \in document_index : d.filePath = p}) <= 1
        /\ \A d \in document_index :
              d.filePath = p =>
                /\ lastUpsert[p].present
                /\ d.content = lastUpsert[p].content
                /\ d.category = lastUpsert[p].category
                /\ d.detection_type = lastUpsert[p].detection_type

\* a path indexed twice (two ids handed out for it) with different content
C1_Witness ==
    /\ nextId >= 3
    /\ \E d \in document_index :
          /\ d.filePath = "p1"
          /\ d.id >= 2
          /\ d.content = <<"c", "a", "t">>
    /\ \A d \in document_index : d.filePath = "p1"

\* C2: without a storage error, every document whose content contains the
\* trimmed non-empty query as a literal substring is in the search result
C2_SearchRecall ==
    (lastSearch.called /\ lastSearch.failAt = "none"
       /\ Trim(lastSearch.query) # <<>>
       /\ Cardinality(document_index) < SEARCH_LIMIT) =>
        \A d \in document_index :
            Contains(d.content, Trim(lastSearch.query)) => d \in lastSearch.result

\* ------------------------------------------------------------------ sync actions
\* what the log keeps of an invocation that ended
EndRecord(run, outcome, cursor) ==
    [outcome |-> outcome, processed |-> run.totalProcessed, start |-> run.start,
     fetched |-> run.fetched, after |-> run.after, at |-> run.pc,
     inPage |-> IF run.pc \in {"cancelSaving", "errorSaving"} /\ run.edges # <<>>
                THEN run.totalProcessed - (run.after - run.start) ELSE 0,
     hasNextPage |-> run.hasNextPage,
     emptyPage |-> (run.edges = <<>>), cursor |-> cursor,
     progress |-> run.progress]

Log(rec) ==
    /\ lastEnded' = rec
    /\ endedCount' = endedCount + 1
    /\ outcomes' = outcomes \cup {rec.outcome}
                     \cup (IF rec.inPage > 0 THEN {"inside a page"} ELSE {})

\* mutant: the catch of runSync leaves the hook idle instead of Paused
EndFailureIdle(r, run, outcome, cursor) ==
    /\ runs' = [runs EXCEPT ![r] = IdleRun]
    /\ Log(EndRecord(run, outcome, cursor))
    /\ isSyncing' = FALSE
    /\ isPaused' = (outcome = "cancelled")

\* runSync after the await of performFullGallerySync: lines 187-198
End(r, run, outcome, cursor) ==
    /\ runs' = [runs EXCEPT ![r] = IdleRun]
    /\ Log(EndRecord(run, outcome, cursor))
    /\ isSyncing' = FALSE
    /\ isPaused' = (outcome \in {"cancelled", "threw"})

\* onProgress(totalProcessed, uri), line 123: the call is logged in the run
OnProgress(run, uri) ==
    [run EXCEPT !.progress = Append(@, [count |-> run.totalProcessed, uri |-> uri])]

\* the head of the while loop, lines 78-88: leave, return cancelled, or fetch
LoopTop(run, cancel) ==
    IF ~run.hasNextPage THEN [run EXCEPT !.pc = "clearing"]
    ELSE IF cancel THEN [run EXCEPT !.pc = "cancelled"]
    ELSE [run EXCEPT !.pc = "fetching", !.fetched = Append(@, run.after)]

\* the run goes on as `run`, or has returned cancelled at the head of the loop
Settle(r, run) ==
    IF run.pc = "cancelled"
    THEN End(r, run, "cancelled", kvCursor)
    ELSE /\ runs' = [runs EXCEPT ![r] = run]
         /\ UNCHANGED <<ended, isSyncing, isPaused>>

\* mutant: a cancelled run saves the position of the item it stopped at
RECURSIVE AdvanceSavesItem(_, _, _, _)
AdvanceSavesItem(run, db, cancel, failItem) ==
    IF run.idx > Len(run.edges)
    THEN [run EXCEPT !.hasNextPage = run.pageHasNext, !.after = run.pageEnd,
                     !.pc = "pageSaving"]
    ELSE IF cancel THEN [run EXCEPT !.pc = "cancelSaving", !.after = run.edges[run.idx]]
    ELSE IF IsFileIndexed(db, run.edges[run.idx], run.edges[run.idx] = failItem)
         THEN AdvanceSavesItem(OnProgress([run EXCEPT !.totalProcessed = @ + 1, !.idx = @ + 1],
                               run.edges[run.idx]),
                               db, cancel, failItem)
         ELSE [run EXCEPT !.pc = "recognizing"]

\* mutant: the cancel flag is looked at between pages only
RECURSIVE AdvancePerPage(_, _, _, _)
AdvancePerPage(run, db, cancel, failItem) ==
    IF run.idx > Len(run.edges)
    THEN [run EXCEPT !.hasNextPage = run.pageHasNext, !.after = run.pageEnd,
                     !.pc = "pageSaving"]
    ELSE IF IsFileIndexed(db, run.edges[run.idx], run.edges[run.idx] = failItem)
         THEN AdvancePerPage(OnProgress([run EXCEPT !.totalProcessed = @ + 1, !.idx = @ + 1],
                               run.edges[run.idx]),
                             db, cancel, failItem)
         ELSE [run EXCEPT !.pc = "recognizing"]

\* mutant: an item already indexed is passed without being counted
RECURSIVE AdvanceSkipUncounted(_, _, _, _)
AdvanceSkipUncounted(run, db, cancel, failItem) ==
    IF run.idx > Len(run.edges)
    THEN [run EXCEPT !.hasNextPage = run.pageHasNext, !.after = run.pageEnd,
                     !.pc = "pageSaving"]
    ELSE IF cancel THEN [run EXCEPT !.pc = "cancelSaving"]
    ELSE IF IsFileIndexed(db, run.edges[run.idx], run.edges[run.idx] = failItem)
         THEN AdvanceSkipUncounted([run EXCEPT !.idx = @ + 1], db, cancel, failItem)
         ELSE [run EXCEPT !.pc = "recognizing"]

\* mutant: the end cursor of a handled page is not taken over (line 127 left out)
RECURSIVE AdvanceKeepsCursor(_, _, _, _)
AdvanceKeepsCursor(run, db, cancel, failItem) ==
    IF run.idx > Len(run.edges)
    THEN [run EXCEPT !.hasNextPage = run.pageHasNext, !.pc = "pageSaving"]
    ELSE IF cancel THEN [run EXCEPT !.pc = "cancelSaving"]
    ELSE IF IsFileIndexed(db, run.edges[run.idx], run.edges[run.idx] = failItem)
         THEN AdvanceKeepsCursor(OnProgress([run EXCEPT !.totalProcessed = @ + 1,
                                                        !.idx = @ + 1],
                                            run.edges[run.idx]),
                                 db, cancel, failItem)
         ELSE [run EXCEPT !.pc = "recognizing"]

\* the for loop from item run.idx on, lines 92-130, up to its next await: items
\* already indexed are counted and passed without suspension
RECURSIVE Advance(_, _, _, _)
Advance(run, db, cancel, failItem) ==
    IF run.idx > Len(run.edges)
    THEN [run EXCEPT !.hasNextPage = run.pageHasNext, !.after = run.pageEnd,
                     !.pc = "pageSaving"]
    ELSE IF cancel THEN [run EXCEPT !.pc = "cancelSaving"]
    ELSE IF IsFileIndexed(db, run.edges[run.idx], run.edges[run.idx] = failItem)
         THEN Advance(OnProgress([run EXCEPT !.totalProcessed = @ + 1, !.idx = @ + 1],
                               run.edges[run.idx]),
                      db, cancel, failItem)
         ELSE [run EXCEPT !.pc = "recognizing"]

\* run r goes on in the for loop on store db after handling the items `done`;
\* failItem is the indexed item whose isFileIndexed lookup fails (0: none)
Continue(r, run, db, faults, done) ==
    \E failItem \in {0} \cup {i \in Items : faults > 0} :
        LET next == Advance(run, db, cancelRef, failItem)
            passed == {run.edges[j] : j \in run.idx..(next.idx - 1)}
        IN  /\ failItem # 0 =>
                /\ next.pc = "recognizing"
                /\ next.edges[next.idx] = failItem
                /\ IsFileIndexed(db, failItem, FALSE)
            /\ storeFaults' = faults - (IF failItem # 0 THEN 1 ELSE 0)
            /\ handled' = handled \cup done \cup passed
            /\ syncCount' = IF done \cup passed # {} THEN next.totalProcessed
                            ELSE syncCount
            /\ extractCount' = IF next.pc = "recognizing"
                               THEN [extractCount EXCEPT ![next.edges[next.idx]] = @ + 1]
                               ELSE extractCount
            /\ runs' = [runs EXCEPT ![r] = next]

\* runSync lines 177-185 and performFullGallerySync lines 73-88 up to the first await
BeginSync(r, fromCursor) ==
    /\ cancelRef' = FALSE
    /\ isSyncing' = TRUE
    /\ isPaused' = FALSE
    /\ runs' = [runs EXCEPT ![r] =
                  IF fromCursor # NoCursor
                  THEN [IdleRun EXCEPT !.pc = "fetching", !.fromCursor = fromCursor,
                                       !.after = fromCursor, !.start = fromCursor,
                                       !.fetched = <<fromCursor>>]
                  ELSE [IdleRun EXCEPT !.pc = "loadCursor"]]

\* runSync(fromCursor) up to its first await: lines 167-185
RunSync(r, fromCursor) ==
    IF android
    THEN /\ runs' = [runs EXCEPT ![r] = [IdleRun EXCEPT !.pc = "permission",
                                                        !.fromCursor = fromCursor]]
         /\ UNCHANGED <<cancelRef, isSyncing, isPaused>>
    ELSE BeginSync(r, fromCursor)

\* SyncProgressCard.handlePress -> onStartSync -> handleFullSync
TapStart ==
    /\ ~isSyncing /\ ~isPaused
    /\ CanInvoke
    /\ RunSync(FreeSlot, NoCursor)
    /\ UNCHANGED <<dbVars, dbHist, kvCursor, envVars, searchVars, syncCount, syncHist>>

\* SyncProgressCard.handlePress -> onPauseSync -> handlePauseSync
TapPause ==
    /\ isSyncing
    /\ cancelRef' = TRUE
    /\ UNCHANGED <<dbVars, dbHist, kvCursor, envVars, searchVars, isSyncing, isPaused, syncCount,
                   runs, syncHist>>

\* SyncProgressCard.handlePress -> onResumeSync -> handleResumeSync, up to its await
TapResume ==
    /\ ~isSyncing /\ isPaused
    /\ CanInvoke
    /\ runs' = [runs EXCEPT ![FreeSlot] = [IdleRun EXCEPT !.pc = "resumeLoad"]]
    /\ UNCHANGED <<dbVars, dbHist, kvCursor, envVars, searchVars, uiVars, syncHist>>

\* handleResumeSync after loadSavedCursor(): runSync(cursor)
ResumeLoaded(r) ==
    /\ runs[r].pc = "resumeLoad"
    /\ RunSync(r, kvCursor)
    /\ UNCHANGED <<dbVars, dbHist, kvCursor, envVars, searchVars, syncCount, syncHist>>

\* runSync after PermissionsAndroid.request
PermissionResult(r) ==
    /\ runs[r].pc = "permission"
    /\ \E granted \in BOOLEAN :
          IF granted
          THEN BeginSync(r, runs[r].fromCursor) /\ UNCHANGED ended
          ELSE /\ runs' = [runs EXCEPT ![r] = IdleRun]
               /\ Log(EndRecord(runs[r], "denied", kvCursor))
               /\ UNCHANGED <<cancelRef, isSyncing, isPaused>>
    /\ UNCHANGED <<dbVars, dbHist, kvCursor, envVars, searchVars, syncCount, extractCount,
                   handled, storeFaults>>

\* performFullGallerySync after loadSavedCursor(), line 74
CursorLoaded(r) ==
    /\ runs[r].pc = "loadCursor"
    /\ Settle(r, LoopTop([runs[r] EXCEPT !.after = kvCursor, !.start = kvCursor],
                         cancelRef))
    /\ UNCHANGED <<dbVars, dbHist, kvCursor, envVars, searchVars, cancelRef, syncCount,
                   extractCount, handled, storeFaults>>

\* CameraRoll.getPhotos returns a page or throws, lines 84-90
PhotosReturned(r) ==
    /\ runs[r].pc = "fetching"
    /\ \E throws \in BOOLEAN :
          LET page == GetPhotos(runs[r].after)
              run == [runs[r] EXCEPT !.edges = page.edges, !.idx = 1,
                                     !.pageHasNext = page.has_next_page,
                                     !.pageEnd = page.end_cursor]
          IN  IF throws
              THEN /\ runs' = [runs EXCEPT ![r].pc = "errorSaving", ![r].edges = <<>>]
                   /\ UNCHANGED <<syncCount, extractCount, handled, storeFaults>>
              ELSE IF page.edges = <<>>
              THEN /\ runs' = [runs EXCEPT ![r].pc = "clearing", ![r].edges = <<>>]
                   /\ UNCHANGED <<syncCount, extractCount, handled, storeFaults>>
              ELSE Continue(r, run, TheDb, storeFaults, {})
    /\ UNCHANGED <<dbVars, dbHist, kvCursor, envVars, searchVars, cancelRef, isSyncing, isPaused,
                   ended>>

\* mutant: an error of the store write escapes indexDocument and ends the loop
IndexAndProgressThrows(r, content) ==
    \E failAt \in IndexFailPoints(ftsAvailable), progressThrows \in BOOLEAN :
        LET uri == runs[r].edges[runs[r].idx]
            db == IndexDocument(TheDb, ftsAvailable, content, uri, "Gallery Sync",
                                "TEXT", failAt)
            faults == storeFaults - (IF failAt = "none" THEN 0 ELSE 1)
            run == OnProgress([runs[r] EXCEPT !.totalProcessed = @ + 1,
                                              !.rawText = <<>>], uri)
        IN  /\ faults >= 0
            /\ SetDb(db)
            /\ IF failAt # "none"
               THEN /\ runs' = [runs EXCEPT ![r].pc = "errorSaving"]
                    /\ storeFaults' = faults
                    /\ UNCHANGED <<syncCount, extractCount, handled>>
               ELSE IF progressThrows
               THEN /\ runs' = [runs EXCEPT ![r] = [run EXCEPT !.pc = "errorSaving"]]
                    /\ handled' = handled \cup {uri}
                    /\ storeFaults' = faults
                    /\ UNCHANGED <<syncCount, extractCount>>
               ELSE Continue(r, [run EXCEPT !.idx = @ + 1], db, faults, {uri})

\* lines 116-123: indexDocument, totalProcessed++, onProgress, then the loop goes on
IndexAndProgress(r, content) ==
    \E failAt \in IndexFailPoints(ftsAvailable), progressThrows \in BOOLEAN :
        LET uri == runs[r].edges[runs[r].idx]
            db == IndexDocument(TheDb, ftsAvailable, content, uri, "Gallery Sync",
                                "TEXT", failAt)
            faults == storeFaults - (IF failAt = "none" THEN 0 ELSE 1)
            run == OnProgress([runs[r] EXCEPT !.totalProcessed = @ + 1,
                                              !.rawText = <<>>], uri)
        IN  /\ faults >= 0
            /\ SetDb(db)
            /\ IF progressThrows
               THEN /\ runs' = [runs EXCEPT ![r] = [run EXCEPT !.pc = "errorSaving"]]
                    /\ handled' = handled \cup {uri}
                    /\ storeFaults' = faults
                    /\ UNCHANGED <<syncCount, extractCount>>
               ELSE Continue(r, [run EXCEPT !.idx = @ + 1], db, faults, {uri})

\* mutant: an exception of recognize escapes the loop, nothing is stored
RecognizeReturnedAborts(r) ==
    /\ runs[r].pc = "recognizing"
    /\ LET ocr == Recognize(runs[r].edges[runs[r].idx])
       IN  IF ocr.throws
           THEN /\ runs' = [runs EXCEPT ![r].pc = "errorSaving"]
                /\ UNCHANGED <<document_index, fts_index, nextId, syncCount,
                               extractCount, handled, storeFaults>>
           ELSE IF Len(Trim(ocr.text)) >= ENRICH_MIN
           THEN /\ runs' = [runs EXCEPT ![r].pc = "enriching", ![r].rawText = ocr.text]
                /\ UNCHANGED <<document_index, fts_index, nextId, syncCount,
                               extractCount, handled, storeFaults>>
           ELSE IF Len(Trim(ocr.text)) > 0
           THEN IndexAndProgress(r, ocr.text)
           ELSE IndexAndProgress(r, Sentinel)
    /\ UNCHANGED <<ftsAvailable, dbHist, kvCursor, envVars, searchVars, cancelRef, isSyncing,
                   isPaused, ended>>

\* mutant: the threshold is applied to the untrimmed text
RecognizeReturnedRawLength(r) ==
    /\ runs[r].pc = "recognizing"
    /\ LET ocr == Recognize(runs[r].edges[runs[r].idx])
       IN  IF ocr.throws
           THEN IndexAndProgress(r, Sentinel)
           ELSE IF Len(ocr.text) >= ENRICH_MIN
           THEN /\ runs' = [runs EXCEPT ![r].pc = "enriching", ![r].rawText = ocr.text]
                /\ UNCHANGED <<document_index, fts_index, nextId, syncCount,
                               extractCount, handled, storeFaults>>
           ELSE IF Len(ocr.text) > 0
           THEN IndexAndProgress(r, ocr.text)
           ELSE IndexAndProgress(r, Sentinel)
    /\ UNCHANGED <<ftsAvailable, dbHist, kvCursor, envVars, searchVars, cancelRef, isSyncing,
                   isPaused, ended>>

\* TextRecognition.recognize returns or throws, lines 103-119
RecognizeReturned(r) ==
    /\ runs[r].pc = "recognizing"
    /\ LET ocr == Recognize(runs[r].edges[runs[r].idx])
       IN  IF ocr.throws
           THEN IndexAndProgress(r, Sentinel)
           ELSE IF Len(Trim(ocr.text)) >= ENRICH_MIN
           THEN /\ runs' = [runs EXCEPT ![r].pc = "enriching", ![r].rawText = ocr.text]
                /\ UNCHANGED <<document_index, fts_index, nextId, syncCount,
                               extractCount, handled, storeFaults>>
           ELSE IF Len(Trim(ocr.text)) > 0
           THEN IndexAndProgress(r, ocr.text)
           ELSE IndexAndProgress(r, Sentinel)
    /\ UNCHANGED <<ftsAvailable, dbHist, kvCursor, envVars, searchVars, cancelRef, isSyncing,
                   isPaused, ended>>

\* buildIndexableContent returns, lines 109 and 116
EnrichReturned(r) ==
    /\ runs[r].pc = "enriching"
    /\ \E generateFails \in BOOLEAN :
          IndexAndProgress(r, BuildIndexableContent(runs[r].rawText, generateFails))
    /\ UNCHANGED <<ftsAvailable, dbHist, kvCursor, envVars, searchVars, cancelRef, isSyncing,
                   isPaused, ended>>

\* saveCursor(cursor), lines 14-19: setItem, or removeItem for undefined.
\* AsyncStorage is the durable key-value storage of the specification: its calls
\* succeed, so the catch branches of saveCursor, loadSavedCursor and
\* clearSyncCursor are not taken
SaveCursor(cursor) == kvCursor' = cursor

\* mutant: the cursor is left in place
ClearSyncCursorSkipped == kvCursor' = kvCursor

\* clearSyncCursor(), lines 32-34
ClearSyncCursor == kvCursor' = NoCursor

\* mutant: the cancel saves the end cursor of the page it was in
CancelCursorPageEnd(run) == run.pageEnd

\* the cursor saved when the run is cancelled inside a page, line 95
CancelCursor(run) == run.after

\* mutant: the catch saves the end cursor of the page it was in
CatchCursorPageEnd(run) == run.pageEnd

\* the cursor saved in the catch, line 142
CatchCursor(run) == run.after

\* lines 95-96: the cursor is saved, the run returns cancelled
CancelSaved(r) ==
    /\ runs[r].pc = "cancelSaving"
    /\ SaveCursor(CancelCursor(runs[r]))
    /\ End(r, runs[r], "cancelled", CancelCursor(runs[r]))
    /\ UNCHANGED <<dbVars, dbHist, envVars, searchVars, cancelRef, syncCount, extractCount,
                   handled, storeFaults>>

\* line 130: the cursor of the finished page is saved, then the run sleeps
PageSaved(r) ==
    /\ runs[r].pc = "pageSaving"
    /\ SaveCursor(runs[r].after)
    /\ runs' = [runs EXCEPT ![r].pc = "sleeping"]
    /\ UNCHANGED <<dbVars, dbHist, envVars, searchVars, uiVars, syncHist>>

\* line 133 and back to the head of the loop
SleepDone(r) ==
    /\ runs[r].pc = "sleeping"
    /\ Settle(r, LoopTop(runs[r], cancelRef))
    /\ UNCHANGED <<dbVars, dbHist, kvCursor, envVars, searchVars, cancelRef, syncCount,
                   extractCount, handled, storeFaults>>

\* lines 137-138: clearSyncCursor(), the run returns completed
Cleared(r) ==
    /\ runs[r].pc = "clearing"
    /\ ClearSyncCursor
    /\ End(r, runs[r], "completed", kvCursor')
    /\ UNCHANGED <<dbVars, dbHist, envVars, searchVars, cancelRef, syncCount, extractCount,
                   handled, storeFaults>>

\* lines 140-143: the cursor is saved, the error is thrown to runSync
ErrorSaved(r) ==
    /\ runs[r].pc = "errorSaving"
    /\ SaveCursor(CatchCursor(runs[r]))
    /\ End(r, runs[r], "threw", CatchCursor(runs[r]))
    /\ UNCHANGED <<dbVars, dbHist, envVars, searchVars, cancelRef, syncCount, extractCount,
                   handled, storeFaults>>

\* the process dies and the app is launched again: the hook's state and the
\* counts kept in memory are fresh, AsyncStorage and the database stay; of the
\* invocations that died only the cursor they left is recorded
Kill ==
    /\ InFlight # {}
    /\ runs' = [r \in RunIds |-> IdleRun]
    /\ lastEnded' = [NoEnd EXCEPT !.outcome = "killed", !.cursor = kvCursor]
    /\ endedCount' = endedCount + Cardinality(InFlight)
    /\ outcomes' = outcomes \cup {"killed"}
    /\ cancelRef' = FALSE
    /\ isSyncing' = FALSE
    /\ isPaused' = FALSE
    /\ syncCount' = 0
    /\ extractCount' = [i \in Items |-> 0]
    /\ UNCHANGED <<dbVars, dbHist, kvCursor, envVars, searchVars, handled,
                   storeFaults>>

RunStep(r) ==
    \/ ResumeLoaded(r)
    \/ PermissionResult(r)
    \/ CursorLoaded(r)
    \/ PhotosReturned(r)
    \/ RecognizeReturned(r)
    \/ EnrichReturned(r)
    \/ CancelSaved(r)
    \/ PageSaved(r)
    \/ SleepDone(r)
    \/ Cleared(r)
    \/ ErrorSaved(r)

SyncInitWith(sizes, faults) ==
    /\ document_index = {}
    /\ fts_index = {}
    /\ nextId = 1
    /\ ftsAvailable \in BOOLEAN
    /\ lastUpsert = [p \in DbPaths |-> NoUpsert]
    /\ lastSearch = NoSearch
    /\ kvCursor = NoCursor
    /\ android \in BOOLEAN
    /\ galleryCount \in sizes
    /\ cancelRef = FALSE
    /\ isSyncing = FALSE
    /\ isPaused = FALSE
    /\ syncCount = 0
    /\ runs = [r \in RunIds |-> IdleRun]
    /\ lastEnded = NoEnd
    /\ endedCount = 0
    /\ outcomes = {}
    /\ extractCount = [i \in Items |-> 0]
    /\ handled = {}
    /\ storeFaults = faults
    /\ SearchIdle

\* a launch in which every storage call of the store succeeds
SyncInit(sizes) == SyncInitWith(sizes, 0)

\* one invocation at a time: Start and Resume are tapped when none is in flight
SeqTapStart == AllIdle /\ TapStart
SeqTapResume == AllIdle /\ TapResume

SeqNext ==
    \/ SeqTapStart
    \/ SeqTapResume
    \/ TapPause
    \/ \E r \in RunIds : RunStep(r)
    \/ Kill

\* an empty gallery and one of more than a page
SeqInit == SyncInit({0, NumItems})

SpecSeq == SeqInit /\ [][SeqNext]_vars

\* taps at any time, also while an invocation is in flight
UiTapStart == endedCount + Cardinality(InFlight) < MaxUiRuns /\ TapStart
UiTapResume == endedCount + Cardinality(InFlight) < MaxUiRuns /\ TapResume

Next ==
    \/ UiTapStart
    \/ UiTapResume
    \/ TapPause
    \/ \E r \in RunIds : RunStep(r)
    \/ Kill

Init == SyncInit({UiItems})

Spec == Init /\ [][Next]_vars

\* ------------------------------------------------------------------ claims on the sync
\* cursors that end a page when the gallery is paged from its newest item
PageEnds == {k \in 1..galleryCount : k % BATCH_SIZE = 0 \/ k = galleryCount}

\* items a run has begun: those counted and the one being extracted or enriched
Begun(run) ==
    run.totalProcessed + (IF run.pc \in {"recognizing", "enriching"} THEN 1 ELSE 0)

\* C3: at every point, process death included, a persisted cursor ends a page,
\* every item up to it has been handled, and its value changes only when a run
\* saves the end cursor of a page it has handled to the last item (before the
\* next fetch) or clears it on completion
C3_CursorAtHandledPage ==
    /\ [](kvCursor # NoCursor =>
            /\ kvCursor \in PageEnds
            /\ \A i \in 1..kvCursor : i \in handled)
    /\ [][kvCursor' # kvCursor =>
            \E r \in RunIds :
                \/ /\ runs[r].pc = "pageSaving"
                   /\ runs'[r].pc = "sleeping"
                   /\ kvCursor' = runs[r].pageEnd
                   /\ \A j \in 1..Len(runs[r].edges) : runs[r].edges[j] \in handled
                \/ /\ runs[r].pc = "clearing"
                   /\ kvCursor' = NoCursor]_vars

\* a run returned cancelled inside the second page with the first page's cursor kept
C3_Witness ==
    /\ kvCursor = BATCH_SIZE
    /\ lastEnded.outcome = "cancelled"
    /\ lastEnded.inPage > 0
    /\ AllIdle

\* only cancels so far (storage does not fail in this specification)
OnlyCancels == outcomes \subseteq {"cancelled", "completed", "inside a page"}

\* C4: when runs were interrupted by cancel only, no item is extracted twice,
\* and once the resumed run has completed every item was extracted exactly once
C4_ExtractedOnce ==
    OnlyCancels =>
        /\ \A i \in Items : extractCount[i] <= 1
        /\ lastEnded.outcome = "completed" =>
              \A i \in 1..galleryCount : extractCount[i] = 1

\* a run cancelled inside a page, then the resumed run completed
C4_Witness ==
    /\ galleryCount = NumItems
    /\ endedCount = 2
    /\ outcomes = {"cancelled", "completed", "inside a page"}
    /\ lastEnded.outcome = "completed"
    /\ \A i \in 1..galleryCount : extractCount[i] = 1

\* C5: once a run has returned wasCancelled = false, whatever interrupted the
\* runs before it, every enumerated item has a document in the store
C5_NoItemSkipped ==
    lastEnded.outcome = "completed" =>
        \A i \in 1..galleryCount : \E d \in document_index : d.filePath = i

\* a process death and an exception, each resumed, then a completed run
C5_Witness ==
    /\ galleryCount = NumItems
    /\ lastEnded.outcome = "completed"
    /\ {"killed", "threw", "inside a page"} \subseteq outcomes
    /\ Cardinality(document_index) = NumItems

\* C6: a run cancelled at item k and a run that threw at item k both leave the
\* cursor with which their page was fetched, and the run resumed from either
\* fetches the pages that follow that cursor, in order
C6_CrashEquivalence ==
    /\ (lastEnded.outcome \in {"cancelled", "threw"}
          /\ lastEnded.at \in {"cancelSaving", "errorSaving"}) =>
            lastEnded.cursor = lastEnded.fetched[Len(lastEnded.fetched)]
    /\ \A r \in RunIds :
          (lastEnded.outcome \in {"cancelled", "threw"}
             /\ runs[r].pc \in SyncPcs \ {"loadCursor"}) =>
                /\ runs[r].start = lastEnded.cursor
                /\ \A j \in 1..Len(runs[r].fetched) :
                      runs[r].fetched[j] =
                          IF j = 1 THEN lastEnded.cursor
                          ELSE GetPhotos(runs[r].fetched[j - 1]).end_cursor

\* the run resumed after an exception inside the second page is in its second fetch
C6_Witness ==
    /\ lastEnded.outcome = "threw"
    /\ lastEnded.inPage > 0
    /\ lastEnded.cursor = BATCH_SIZE
    /\ \E r \in RunIds : runs[r].pc = "sleeping" /\ runs[r].fetched = <<BATCH_SIZE>>

\* C7: at most one performFullGallerySync invocation is active at any time
C7_SingleActiveRun == Cardinality(ActiveRuns) <= 1

\* C8: while the cancel flag is set, an active run begins no further item and
\* fetches no further page, and it returns wasCancelled = false only when every
\* item of the gallery has been handled
C8_CancelWithinOneItem ==
    [][\A r \in RunIds :
          (cancelRef /\ runs[r].pc \in SyncPcs) =>
              /\ Begun(runs'[r]) <= Begun(runs[r])
              /\ Len(runs'[r].fetched) <= Len(runs[r].fetched)
              /\ (runs'[r].pc = "idle" /\ lastEnded'.outcome = "completed") =>
                    \A i \in 1..galleryCount : i \in handled]_vars

\* the flag was set during an item and the run returned cancelled after it
C8_Witness ==
    /\ cancelRef
    /\ AllIdle
    /\ lastEnded.outcome = "cancelled"
    /\ lastEnded.at = "cancelSaving"
    /\ lastEnded.inPage > 0

\* the first run returns cancelled and the run resumed from it returns completed
ResumedRunCompletes ==
    /\ endedCount = 1
    /\ lastEnded.outcome = "cancelled"
    /\ endedCount' = 2
    /\ lastEnded'.outcome = "completed"

\* C9 as stated: the two processed values sum to the number of items
C9_SumIsTotal ==
    [][ResumedRunCompletes =>
          lastEnded.processed + lastEnded'.processed = galleryCount]_vars

\* C9 amended: the sum exceeds the number of items by the items of the
\* interrupted page that were handled before the cancel was observed
C9_SumCountsInterruptedPageTwice ==
    [][ResumedRunCompletes =>
          lastEnded.processed + lastEnded'.processed
              = galleryCount + lastEnded.inPage]_vars

C9_Witness ==
    /\ galleryCount = NumItems
    /\ endedCount = 2
    /\ outcomes = {"cancelled", "completed", "inside a page"}
    /\ lastEnded.outcome = "completed"
    /\ lastEnded.processed = NumItems

CurrentItem(r) == runs[r].edges[runs[r].idx]

\* run r takes a step of its own out of state pc (the process does not die)
StepsFrom(r, pc) == runs[r].pc = pc /\ runs'[r] # runs[r] /\ runs'[r].pc # "idle"

\* C14: when recognize throws for an item, the step stores the sentinel under
\* the item's path, counts the item, reports it to the progress callback, and
\* the run goes on with the items that follow (it stops only if the callback
\* itself throws); every handled item whose extraction throws has the sentinel
C14_ExtractionFailureStoresSentinel ==
    /\ [](\A i \in handled :
            Recognize(i).throws =>
                \E d \in document_index : d.filePath = i /\ d.content = Sentinel)
    /\ [][\A r \in RunIds :
            (StepsFrom(r, "recognizing") /\ Recognize(CurrentItem(r)).throws) =>
                /\ \E d \in document_index' :
                      d.filePath = CurrentItem(r) /\ d.content = Sentinel
                /\ CurrentItem(r) \in handled'
                /\ runs'[r].totalProcessed > runs[r].totalProcessed
                /\ runs'[r].pc # "errorSaving" =>
                      /\ runs'[r].pc \in {"recognizing", "pageSaving", "cancelSaving"}
                      /\ runs'[r].idx = runs[r].idx + 1
                      /\ syncCount' = runs'[r].totalProcessed]_vars

\* photo 3 (recognize throws) has the sentinel and the run went on to completion
C14_Witness ==
    /\ galleryCount = NumItems
    /\ \E d \in document_index : d.filePath = 3 /\ d.content = Sentinel
    /\ lastEnded.outcome = "completed"
    /\ lastEnded.processed = NumItems
    /\ outcomes = {"completed"}

\* q occurs in s as a substring, letter case ignored
ContainsNoCase(s, q) == Contains(LowerText(s), LowerText(q))

\* the accelerated query of the last search gave no row: FTS5 is missing, the
\* sanitized query is empty, the MATCH threw or it matched nothing
NoAcceleratedRows ==
    \/ ~ftsAvailable
    \/ lastSearch.failAt = "fts"
    \/ FtsRows(TheDb, Trim(StripSpecial(Trim(lastSearch.query)))) = {}

\* C15: when the accelerated query gave no row, searchDocuments(q) returns
\* exactly the documents whose content contains the trimmed q, letter case
\* ignored (at most 50 of them), and the empty list when the scan itself throws
C15_FallbackIsSubstringScan ==
    (lastSearch.called /\ Trim(lastSearch.query) # <<>> /\ NoAcceleratedRows) =>
        lastSearch.result =
            IF lastSearch.failAt = "like" THEN {}
            ELSE Limit({d \in document_index :
                          ContainsNoCase(d.content, Trim(lastSearch.query))})

\* what a sync can store for recognized text raw that went through enrichment:
\* the trimmed text when generate failed, else text, separator and keywords
EnrichedContents(raw) ==
    {Trim(raw), TrimStart(raw) \o <<" ">> \o Trim(Keywords)}

\* C16 as stated: when generate fails, buildIndexableContent returns the raw text
C16_FailedGenerateReturnsRawText ==
    \A r \in RunIds :
        (runs[r].pc = "enriching" /\ ContainsHindi(runs[r].rawText)) =>
            BuildIndexableContent(runs[r].rawText, TRUE) = runs[r].rawText

\* C16 amended: when generate fails for Devanagari text, buildIndexableContent
\* returns the raw text without its surrounding whitespace; the step that ends
\* the enrichment stores a document for the item with the trimmed text (with or
\* without keywords), never the sentinel, counts the item and goes on
C16_FailedGenerateKeepsTrimmedText ==
    /\ [](\A r \in RunIds :
            (runs[r].pc = "enriching" /\ ContainsHindi(runs[r].rawText)) =>
                BuildIndexableContent(runs[r].rawText, TRUE) = Trim(runs[r].rawText))
    /\ [][\A r \in RunIds :
            (StepsFrom(r, "enriching") /\ ContainsHindi(runs[r].rawText)) =>
                /\ \E d \in document_index' :
                      /\ d.filePath = CurrentItem(r)
                      /\ d.content \in EnrichedContents(runs[r].rawText)
                      /\ d.content # Sentinel
                /\ runs'[r].totalProcessed > runs[r].totalProcessed
                /\ runs'[r].pc # "errorSaving" =>
                      /\ runs'[r].pc \in {"recognizing", "pageSaving", "cancelSaving"}
                      /\ runs'[r].idx = runs[r].idx + 1]_vars

\* generate failed for photo 2: its document holds the trimmed text only, and
\* the run went on to completion
C16_Witness ==
    /\ galleryCount = NumItems
    /\ \E d \in document_index : d.filePath = 2 /\ d.content = HindiText
    /\ lastEnded.outcome = "completed"
    /\ lastEnded.processed = NumItems

\* the text recognized for the photo of document d
RawOf(d) == Recognize(d.filePath).text

\* C17 as stated, on the length of the extracted text: 1 to 14 characters are
\* stored verbatim, 15 or more with a Devanagari character are stored with the
\* text as a prefix, no character gives the sentinel
C17_LengthDecidesContent ==
    \A d \in document_index :
        ~Recognize(d.filePath).throws =>
            /\ Len(RawOf(d)) \in 1..(ENRICH_MIN - 1) => d.content = RawOf(d)
            /\ (Len(RawOf(d)) >= ENRICH_MIN /\ ContainsHindi(RawOf(d))) =>
                  /\ IsPrefix(RawOf(d), d.content)
                  /\ d.content \in {RawOf(d), RawOf(d) \o <<" ">> \o Trim(Keywords)}
            /\ Len(RawOf(d)) = 0 => d.content = Sentinel

\* C17 amended, on the length of the trimmed text: 1 to 14 characters are stored
\* trimmed without a call of the engine, 15 or more go through enrichment and
\* with a Devanagari character are stored as trimmed text, or text, separator
\* and keywords (the trimmed text is a prefix); nothing but whitespace gives the
\* sentinel
C17_TrimmedLengthDecidesContent ==
    /\ [](\A d \in document_index :
            ~Recognize(d.filePath).throws =>
                /\ Len(Trim(RawOf(d))) \in 1..(ENRICH_MIN - 1) =>
                      d.content = Trim(RawOf(d))
                /\ (Len(Trim(RawOf(d))) >= ENRICH_MIN /\ ContainsHindi(RawOf(d))) =>
                      /\ IsPrefix(Trim(RawOf(d)), d.content)
                      /\ d.content \in EnrichedContents(RawOf(d))
                /\ Len(Trim(RawOf(d))) = 0 => d.content = Sentinel)
    /\ [][\A r \in RunIds :
            (StepsFrom(r, "recognizing") /\ ~Recognize(CurrentItem(r)).throws) =>
                (runs'[r].pc = "enriching"
                   <=> Len(Trim(Recognize(CurrentItem(r)).text)) >= ENRICH_MIN)]_vars

\* short text, enriched Devanagari text, 15 characters that trim to 14, and the
\* sentinel for no text are all in the store
C17_Witness ==
    /\ \E d \in document_index : d.filePath = 1 /\ d.content = ShortText
    /\ \E d \in document_index :
          d.filePath = 2 /\ d.content = HindiText \o <<" ", " ">> \o Keywords
    /\ \E d \in document_index : d.filePath = 4 /\ d.content = Sentinel
    /\ \E d \in document_index :
          d.filePath = 10 /\ d.content = SubSeq(HindiText, 1, 14)

\* ------------------------------------------------------------------ manual scan
\* the text handleScan indexes when recognize returns ''
NoReadableText == <<"n", "o", " ", "t", "e", "x", "t">>

\* usePinpointer.handleScan for the photo uri picked in the library: recognize,
\* buildIndexableContent, indexDocument(..., 'Manual Scan'); an exception of
\* recognize is caught and nothing is stored
HandleScan(db, hasFts, uri, generateFails, failAt) ==
    LET ocr == Recognize(uri)
        rawText == IF ocr.text = <<>> THEN NoReadableText ELSE ocr.text
    IN  IF ocr.throws THEN db
        ELSE IndexDocument(db, hasFts, BuildIndexableContent(rawText, generateFails),
                           uri, "Manual Scan", "TEXT", failAt)

ManualDocs == {d \in document_index : d.category = "Manual Scan"}

\* the user scans by hand a photo of the gallery that was not scanned before;
\* scans are taken between invocations of runSync, so that every document of a
\* scan is in the store when a run reaches its photo
TapScan ==
    /\ AllIdle
    /\ Cardinality(ManualDocs) < MaxScans
    /\ \E uri \in 1..galleryCount, generateFails \in BOOLEAN,
          failAt \in IndexFailPoints(ftsAvailable) :
          /\ \A d \in ManualDocs : d.filePath # uri
          /\ failAt # "none" => storeFaults > 0 /\ ~Recognize(uri).throws
          /\ SetDb(HandleScan(TheDb, ftsAvailable, uri, generateFails, failAt))
          /\ storeFaults' = storeFaults - (IF failAt = "none" THEN 0 ELSE 1)
    /\ UNCHANGED <<ftsAvailable, dbHist, kvCursor, envVars, uiVars, runs, ended,
                   extractCount, handled, searchVars>>

\* taps between invocations, as in SeqNext, in a shorter session
ScanTapStart == AllIdle /\ endedCount < MaxScanRuns /\ TapStart
ScanTapResume == AllIdle /\ endedCount < MaxScanRuns /\ TapResume

ScanNext ==
    \/ ScanTapStart
    \/ ScanTapResume
    \/ TapPause
    \/ \E r \in RunIds : RunStep(r)
    \/ Kill
    \/ TapScan

ScanInit == SyncInit({ScanItems})

\* sync runs one at a time on a small gallery, with manual scans between them
SpecScan == ScanInit /\ [][ScanNext]_vars

\* a launch on a small gallery in which MaxStoreFaults statements of the store fail
FaultInit == SyncInitWith({UiItems}, MaxStoreFaults)

\* taps between invocations and the steps of the invocation in flight
ShortNext ==
    \/ ScanTapStart
    \/ ScanTapResume
    \/ TapPause
    \/ \E r \in RunIds : RunStep(r)
    \/ Kill

\* sync runs one at a time, with store statements that fail
SpecFaults == FaultInit /\ [][ShortNext]_vars

\* C18: a document of an item for which recognize threw or returned no text
\* has kind EMPTY or OBJECT
C18_KindTextOnlyWithText ==
    \A d \in document_index :
        (Recognize(d.filePath).throws \/ Trim(RawOf(d)) = <<>>) =>
            d.detection_type \in {"EMPTY", "OBJECT"}

\* run r starts the extraction of an item in this step
StartsExtraction(r) ==
    /\ runs'[r].pc = "recognizing"
    /\ runs[r].pc = "recognizing" => runs'[r].idx # runs[r].idx

SEARCH_DEBOUNCE == 200
HISTORY_DEBOUNCE == 800

\* the texts the search box takes: typed, erased, or picked from the history
QueryTexts == { <<>>, <<" ">>, <<"c">>, <<"c", "a">> }

Delay(kind) == IF kind = "search" THEN SEARCH_DEBOUNCE ELSE HISTORY_DEBOUNCE

\* setTimeout(callback, Delay(kind)) of the effect of that kind, whose callback
\* closes over text
SetTimeout(ts, kind, text) == ts \cup {[kind |-> kind, text |-> text, left |-> Delay(kind)]}

ClearTimeoutNoOp(ts, timer) == ts

\* clearTimeout(timer): nothing happens if the timer has fired
ClearTimeout(ts, timer) == {t \in ts : ~(t.kind = timer.kind /\ t.text = timer.text)}

\* ---- the search history
\* the key of a history entry
NormalizeQuery(q) == LowerText(Trim(q))

Take(list, n) == SubSeq(list, 1, Min(n, Len(list)))

\* saveSearch(query, resultCount): the entry of the query moves to the front
\* with the new count, and the oldest entries beyond the limit are dropped
SaveSearch(list, query, resultCount) ==
    LET key == NormalizeQuery(query)
        others == SelectSeq(list, LAMBDA e : e.query # key)
    IN  Take(<<[query |-> key, resultCount |-> resultCount]>> \o others, MaxHistory)

\* deleteSearchItem(query)
DeleteSearchItem(list, query) ==
    SelectSeq(list, LAMBDA e : e.query # NormalizeQuery(query))

\* clearSearchHistory()
ClearSearchHistory(list) == <<>>

\* a history operation of useSearch suspended at an await
HistoryOp(kind, pc, query, resultCount) ==
    [kind |-> kind, pc |-> pc, query |-> query, resultCount |-> resultCount]

\* a render with a new searchText or isDbReady: the cleanups of the search
\* effect and of the history effect, then the two effects
RunEffects(text, ready) ==
    LET live == ready /\ Trim(text) # <<>>
        kept == ClearTimeout(ClearTimeout(timers, searchTimer), historyTimer)
    IN  /\ timers' = IF live
                     THEN SetTimeout(SetTimeout(kept, "search", text), "history", text)
                     ELSE kept
        /\ searchTimer' = IF live THEN [kind |-> "search", text |-> text] ELSE NoTimer
        /\ historyTimer' = IF live THEN [kind |-> "history", text |-> text] ELSE NoTimer
        /\ isSearchPending' = live
        /\ searchResults' = IF live THEN searchResults ELSE {}
        /\ clearedKinds' = clearedKinds \cup {t.kind : t \in timers \ kept}

\* usePinpointer's init effect: setupDatabase(), setIsDbReady(true); the mount
\* effect of useSearch then calls loadSearchHistory
SetupDatabase ==
    /\ ~isDbReady
    /\ isDbReady' = TRUE
    /\ RunEffects(searchText, TRUE)
    /\ historyOps' = historyOps \cup {HistoryOp("load", "loading", <<>>, 0)}
    /\ UNCHANGED <<dbVars, dbHist, syncVars, searchText, debouncedSearchText,
                   unchangedFor, lastSave, historyStore, searchHistory>>

\* setSearchText with another text (a keystroke, or handleSelectHistory)
SetSearchText ==
    \E text \in QueryTexts \ {searchText} :
        /\ searchText' = text
        /\ unchangedFor' = 0
        /\ RunEffects(text, isDbReady)
        /\ UNCHANGED <<dbVars, dbHist, syncVars, isDbReady, debouncedSearchText,
                       lastSave, histVars>>

\* d milliseconds pass; a timer that is due fires at once or later
Pass(d) ==
    /\ unchangedFor < HISTORY_DEBOUNCE \/ \E t \in timers : t.left > 0
    /\ timers' = {[t EXCEPT !.left = IF @ > d THEN @ - d ELSE 0] : t \in timers}
    /\ unchangedFor' = Min(HISTORY_DEBOUNCE, unchangedFor + d)
    /\ UNCHANGED <<dbVars, dbHist, syncVars, isDbReady, searchText,
                   debouncedSearchText, searchResults, isSearchPending,
                   searchTimer, historyTimer, lastSave, clearedKinds, histVars>>

\* half a search debounce period passes
Elapse == Pass(SEARCH_DEBOUNCE \div 2)

\* the user leaves the search box alone for a history debounce period
Pause == Pass(HISTORY_DEBOUNCE)

\* the callback of the search effect's timeout
SearchTimerFires ==
    \E t \in timers, failAt \in SearchFailPoints(ftsAvailable) :
        LET results == SearchDocuments(TheDb, ftsAvailable, t.text, failAt)
        IN  /\ t.kind = "search"
            /\ t.left = 0
            /\ timers' = timers \ {t}
            /\ lastSearch' = [called |-> TRUE, query |-> t.text, failAt |-> failAt,
                              result |-> results]
            /\ searchResults' = results
            /\ debouncedSearchText' = t.text
            /\ isSearchPending' = FALSE
            /\ UNCHANGED <<dbVars, lastUpsert, syncVars, isDbReady, searchText,
                           searchTimer, historyTimer, unchangedFor, lastSave,
                           clearedKinds, histVars>>

\* the callback of the history effect's timeout, up to its await of saveSearch
HistoryTimerFires ==
    \E t \in timers, failAt \in SearchFailPoints(ftsAvailable) :
        LET results == SearchDocuments(TheDb, ftsAvailable, t.text, failAt)
        IN  /\ t.kind = "history"
            /\ t.left = 0
            /\ timers' = timers \ {t}
            /\ lastSearch' = [called |-> TRUE, query |-> t.text, failAt |-> failAt,
                              result |-> results]
            /\ lastSave' = [called |-> TRUE, query |-> t.text,
                            resultCount |-> Cardinality(results)]
            /\ historyOps' = historyOps \cup
                    {HistoryOp("record", "saving", t.text, Cardinality(results))}
            /\ UNCHANGED <<dbVars, lastUpsert, syncVars, isDbReady, searchText,
                           debouncedSearchText, searchResults, isSearchPending,
                           searchTimer, historyTimer, unchangedFor, clearedKinds,
                           historyStore, searchHistory>>

\* await saveSearch(searchText, results.length) returns: the history timer's
\* callback goes on to loadSearchHistory
SaveSearchDone ==
    \E op \in historyOps :
        /\ op.kind = "record"
        /\ op.pc = "saving"
        /\ historyStore' = SaveSearch(historyStore, op.query, op.resultCount)
        /\ historyOps' = (historyOps \ {op}) \cup {[op EXCEPT !.pc = "loading"]}
        /\ UNCHANGED <<dbVars, dbHist, syncVars, isDbReady, searchText,
                       debouncedSearchText, searchResults, isSearchPending, timers,
                       searchTimer, historyTimer, unchangedFor, lastSave, clearedKinds,
                       searchHistory>>

\* handleDeleteHistory(query) for an entry the history panel shows; the panel
\* is on screen while the search text is blank
TapDeleteHistory ==
    \E i \in 1..Len(searchHistory) :
        /\ Trim(searchText) = <<>>
        /\ Cardinality(historyOps) < MaxHistoryOps
        /\ historyOps' = historyOps \cup
                {HistoryOp("delete", "deleting", searchHistory[i].query, 0)}
        /\ UNCHANGED <<dbVars, dbHist, syncVars, isDbReady, searchText,
                       debouncedSearchText, searchResults, isSearchPending, timers,
                       searchTimer, historyTimer, unchangedFor, lastSave, clearedKinds,
                       historyStore, searchHistory>>

\* await deleteSearchItem(query) returns: on to loadSearchHistory
DeleteSearchItemDone ==
    \E op \in historyOps :
        /\ op.kind = "delete"
        /\ op.pc = "deleting"
        /\ historyStore' = DeleteSearchItem(historyStore, op.query)
        /\ historyOps' = (historyOps \ {op}) \cup {[op EXCEPT !.pc = "loading"]}
        /\ UNCHANGED <<dbVars, dbHist, syncVars, isDbReady, searchText,
                       debouncedSearchText, searchResults, isSearchPending, timers,
                       searchTimer, historyTimer, unchangedFor, lastSave, clearedKinds,
                       searchHistory>>

\* loadSearchHistory() returns the persisted list and setSearchHistory takes it
HistoryLoaded ==
    \E op \in historyOps :
        /\ op.pc = "loading"
        /\ searchHistory' = historyStore
        /\ historyOps' = historyOps \ {op}
        /\ UNCHANGED <<dbVars, dbHist, syncVars, isDbReady, searchText,
                       debouncedSearchText, searchResults, isSearchPending, timers,
                       searchTimer, historyTimer, unchangedFor, lastSave, clearedKinds,
                       historyStore>>

\* handleClearHistory()
TapClearHistory ==
    /\ Trim(searchText) = <<>>
    /\ Cardinality(historyOps) < MaxHistoryOps
    /\ historyOps' = historyOps \cup {HistoryOp("clear", "clearing", <<>>, 0)}
    /\ UNCHANGED <<dbVars, dbHist, syncVars, isDbReady, searchText,
                   debouncedSearchText, searchResults, isSearchPending, timers,
                   searchTimer, historyTimer, unchangedFor, lastSave, clearedKinds,
                   historyStore, searchHistory>>

ClearHistoryDoneKeepsList(op) ==
    /\ historyStore' = ClearSearchHistory(historyStore)
    /\ searchHistory' = searchHistory

\* the continuation of handleClearHistory once clearSearchHistory() returns
ClearHistoryDone(op) ==
    /\ historyStore' = ClearSearchHistory(historyStore)
    /\ searchHistory' = <<>>

\* await clearSearchHistory() returns
ClearSearchHistoryDone ==
    \E op \in historyOps :
        /\ op.kind = "clear"
        /\ ClearHistoryDone(op)
        /\ historyOps' = historyOps \ {op}
        /\ UNCHANGED <<dbVars, dbHist, syncVars, isDbReady, searchText,
                       debouncedSearchText, searchResults, isSearchPending, timers,
                       searchTimer, historyTimer, unchangedFor, lastSave, clearedKinds>>

\* the store at launch: empty, or with the document of one photo
SearchInit ==
    /\ ftsAvailable \in BOOLEAN
    /\ \E db \in {Db({}, {}, 1),
                 IndexDocument(Db({}, {}, 1), ftsAvailable, ShortText, 1,
                               "Gallery Sync", "TEXT", "none")} :
          /\ document_index = db.rows
          /\ fts_index = db.fts
          /\ nextId = db.nextId
    /\ lastUpsert = [p \in DbPaths |-> NoUpsert]
    /\ lastSearch = NoSearch
    /\ SyncIdle
    /\ SearchIdle

SearchNext ==
    \/ SetupDatabase
    \/ SetSearchText
    \/ Elapse
    \/ SearchTimerFires
    \/ HistoryTimerFires

\* the timers of useSearch in steps of 100 ms; the history operations that the
\* timers start stay suspended at their first await
SpecSearch == SearchInit /\ [][SearchNext]_vars

\* the history timer fires late when MaxHistoryOps operations are suspended
HistoryRecords == Cardinality(historyOps) < MaxHistoryOps /\ HistoryTimerFires

\* a launch with an empty store without FTS5
HistoryInit ==
    /\ SearchInit
    /\ ~ftsAvailable
    /\ document_index = {}

HistoryNext ==
    \/ SetupDatabase
    \/ SetSearchText
    \/ Pause
    \/ SearchTimerFires
    \/ HistoryRecords
    \/ SaveSearchDone
    \/ HistoryLoaded
    \/ TapDeleteHistory
    \/ DeleteSearchItemDone
    \/ TapClearHistory
    \/ ClearSearchHistoryDone

\* the history operations of useSearch, with time passing in whole history
\* debounce periods
SpecHistory == HistoryInit /\ [][HistoryNext]_vars

TimersOf(kind) == {t \in timers : t.kind = kind}

\* the timer t fires in this step
Fires(t) ==
    /\ t \in timers
    /\ timers' = timers \ {t}
    /\ searchText' = searchText
    /\ isDbReady' = isDbReady

\* C20: at most one timer of the search effect and one of the history effect
\* are pending, and every pending timer is for the current text (a change of
\* the text cleared the others); searchDocuments is called only by a timer
\* that fires, for the current text, which then has been unchanged for 200 ms,
\* and saveSearch only by a history timer, after 800 ms
C20_OnlyLatestTextFires ==
    /\ [](/\ \A kind \in {"search", "history"} : Cardinality(TimersOf(kind)) <= 1
          /\ \A t \in timers : t.text = searchText)
    /\ [][/\ \A t \in timers :
                Fires(t) =>
                    /\ t.text = searchText
                    /\ unchangedFor >= Delay(t.kind)
                    /\ lastSearch'.called /\ lastSearch'.query = searchText
                    /\ t.kind = "history" =>
                          lastSave'.called /\ lastSave'.query = searchText
          /\ lastSearch' # lastSearch => \E t \in timers : Fires(t)
          /\ lastSave' # lastSave =>
                \E t \in timers : Fires(t) /\ t.kind = "history"]_vars

\* the cleanups cleared a pending timer of each effect, and then the text
\* stayed long enough for a search and a history entry
C20_Witness ==
    /\ clearedKinds = {"search", "history"}
    /\ timers = {}
    /\ debouncedSearchText = searchText
    /\ searchResults # {}
    /\ lastSave.called
    /\ lastSave.query = searchText
    /\ lastSave.resultCount = 1

C22_HistoryInMemoryIsPersisted ==
    historyOps = {} => searchHistory = historyStore

\* "ca" was recorded last, its entry was deleted again, and an entry of "c"
\* recorded before it is what both lists hold
C22_Witness ==
    /\ historyOps = {}
    /\ lastSave.called
    /\ lastSave.query = <<"c", "a">>
    /\ Len(historyStore) = 1
    /\ historyStore[1].query = <<"c">>
    /\ searchHistory = historyStore

RowsOf(path) == {d \in document_index : d.filePath = path}

\* C23: in every state of the store between two calls, which is what a
\* searchDocuments call made at that moment reads, a path has at most one row,
\* and a path that was upserted (and not cleared since) has its row: no state
\* in which an upsert has deleted the old row and not inserted the new one
C23_SearchSeesWholeUpserts ==
    \A p \in DbPaths :
        /\ Cardinality(RowsOf(p)) <= 1
        /\ lastUpsert[p].present => RowsOf(p) # {}

\* the calls of onProgress from a run that started at cursor start are for the
\* items after it, one each, in the order of the enumeration, counted from 1
CountsItemsFrom(progress, start) ==
    \A k \in 1..Len(progress) : progress[k] = [count |-> k, uri |-> start + k]

\* C24: a run has called onProgress once for every item it has handled so far,
\* skipped ones included, in the order of the enumeration and with the counts
\* 1, 2, 3, ...; the item it is extracting is the next one; and the processed
\* value a run returns is the number of calls it made
C24_ProgressCountsEveryItemOnce ==
    /\ \A r \in RunIds :
          /\ Len(runs[r].progress) = runs[r].totalProcessed
          /\ CountsItemsFrom(runs[r].progress, runs[r].start)
          /\ runs[r].pc \in {"recognizing", "enriching"} =>
                CurrentItem(r) = runs[r].start + runs[r].totalProcessed + 1
    /\ lastEnded.outcome \in {"completed", "cancelled"} =>
          /\ lastEnded.processed = Len(lastEnded.progress)
          /\ CountsItemsFrom(lastEnded.progress, lastEnded.start)
    /\ lastEnded.outcome = "completed" =>
          lastEnded.start + lastEnded.processed = galleryCount

\* a run was paused inside the first page, and the run resumed from the start
\* of that page completed: it called onProgress for all the items, those the
\* first run had indexed (passed without extraction) and the others
C24_Witness ==
    /\ lastEnded.outcome = "completed"
    /\ lastEnded.start = NoCursor
    /\ lastEnded.processed = NumItems
    /\ Len(lastEnded.progress) = NumItems
    /\ outcomes = {"cancelled", "inside a page", "completed"}
    /\ \A i \in 1..NumItems : extractCount[i] = 1

\* the sync state the card shows, from isSyncing and isPaused; a run that
\* completed leaves the flags of Idle, a run that failed those of Paused
Phase ==
    IF isSyncing /\ isPaused THEN "Both"
    ELSE IF isSyncing THEN "Running"
    ELSE IF isPaused THEN "Paused"
    ELSE "Idle"

PhaseSteps ==
    { <<"Idle", "Running">>, <<"Running", "Paused">>, <<"Running", "Idle">>,
      <<"Paused", "Running">> }

\* the process is killed in this step: the state of the hook is gone with it
Killed == endedCount' > endedCount /\ lastEnded'.outcome = "killed"

\* C25: while the process lives the state changes only from Idle/Completed to
\* Running, from Running to Paused/Failed or to Completed, and from
\* Paused/Failed to Running (so Paused is left by nothing but a run that
\* begins); isSyncing and isPaused are never both true
C25_SyncStateMachine ==
    [][\/ Killed
       \/ /\ Phase' # "Both"
          /\ Phase' # Phase => <<Phase, Phase'>> \in PhaseSteps]_vars

\* the fts_index entry the triggers keep for a row of document_index
FtsEntry(d) == [rowid |-> d.id, content |-> d.content, filePath |-> d.filePath]

\* C26: with FTS5 available, fts_index holds the entry of every row of
\* document_index (same id, content and path) and nothing else
C26_FtsMirrorsDocuments ==
    ftsAvailable => fts_index = {FtsEntry(d) : d \in document_index}

\* two paths are indexed, one of them upserted more than once or indexed again
\* after a clearIndex, and fts_index has their two entries
C26_Witness ==
    /\ ftsAvailable
    /\ Cardinality(document_index) = 2
    /\ nextId > 3
    /\ Cardinality(fts_index) = 2

\* the store answers as an empty one: getIndexedCount() is 0, isFileIndexed is
\* false for every path and searchDocuments is empty for every query
AnswersAsEmpty(db, hasFts) ==
    /\ GetIndexedCount(db, FALSE) = 0
    /\ \A p \in DbPaths : ~IsFileIndexed(db, p, FALSE)
    /\ \A q \in DbQueries : SearchDocuments(db, hasFts, q, "none") = {}

\* C27: after every clearIndex() call the store answers as an empty one
C27_ClearIndexEmptiesStore ==
    [][DbClearIndex => AnswersAsEmpty(TheDb', ftsAvailable)]_vars

\* run r is extracting an item (recognize or generate is awaited)
Extracting(r) == runs[r].pc \in {"recognizing", "enriching"}

\* the items for which run r calls onProgress in this step
NewlyHandled(r) ==
    {runs'[r].progress[k].uri :
        k \in (Len(runs[r].progress) + 1)..Len(runs'[r].progress)}

\* in this step an isFileIndexed lookup of run r failed: the run starts the
\* extraction of an item that has a row
LookupFailed(r) ==
    /\ runs'[r].pc = "recognizing"
    /\ IsFileIndexed(TheDb', runs'[r].edges[runs'[r].idx], FALSE)

\* in this step the store write of run r for the item it extracted failed
WriteFailed(r) ==
    /\ Extracting(r)
    /\ storeFaults - storeFaults' > (IF LookupFailed(r) THEN 1 ELSE 0)

\* C28: when the store write of a sync run for an item fails, the loop goes on
\* (the item is counted and reported as handled) and the item, which had no
\* row when the run looked it up, still has none; and
\* a run never passes an item that has no row: it counts such an item only
\* after extracting it, and the item has a row then unless the write failed
\* again
C28_FailedWriteIsRetried ==
    [][\A r \in RunIds :
          /\ WriteFailed(r) =>
                /\ CurrentItem(r) \in NewlyHandled(r)
                /\ CurrentItem(r) \in handled'
                /\ ~IsFileIndexed(TheDb, CurrentItem(r), FALSE) =>
                      ~IsFileIndexed(TheDb', CurrentItem(r), FALSE)
          /\ \A u \in NewlyHandled(r) :
                ~IsFileIndexed(TheDb, u, FALSE) =>
                    /\ Extracting(r)
                    /\ u = CurrentItem(r)
                    /\ WriteFailed(r) \/ IsFileIndexed(TheDb', u, FALSE)]_vars

\* the write of one item failed in a run, and a later run that started from the
\* beginning has extracted that item a second time and indexed it; every
\* item has its row from its first successful write
C28_Witness ==
    /\ AllIdle
    /\ storeFaults = 0
    /\ \A u \in 1..galleryCount : IsFileIndexed(TheDb, u, FALSE)
    /\ nextId = galleryCount + 1
    /\ \E u \in 1..galleryCount : extractCount[u] = 2
    /\ lastEnded.outcome = "completed"

\* C29: every document searchDocuments(q) returns contains the trimmed q,
\* letter case ignored
C29_ResultsContainQuery ==
    lastSearch.called =>
        \A d \in lastSearch.result : ContainsNoCase(d.content, Trim(lastSearch.query))

\* a step of invocation r is possible exactly while r is in flight: whatever
\* it awaits can return
RunStepEnabled ==
    \A r \in RunIds : (runs[r].pc # "idle") <=> ENABLED <<RunStep(r)>>_vars

\* weak fairness of the steps of invocation r, WF_vars(RunStep(r)), with
\* ENABLED <<RunStep(r)>>_vars written as the state predicate it equals
\* (RunStepEnabled): what the invocation awaits does return
CallsReturn(r) == []<>(runs[r].pc = "idle") \/ []<><<RunStep(r)>>_vars

\* taps between invocations and the steps of the invocation in flight, in a
\* process that is not killed
FairNext ==
    \/ ScanTapStart
    \/ ScanTapResume
    \/ TapPause
    \/ \E r \in RunIds : RunStep(r)

\* sessions of invocations one at a time in which every external call returns
SpecFair == SeqInit /\ [][FairNext]_vars /\ \A r \in RunIds : CallsReturn(r)

\* the cursors with which run r fetched its pages are all different
NoPageTwice(fetched) ==
    \A i, j \in 1..Len(fetched) : i # j => fetched[i] # fetched[j]

\* C30: within one invocation no page is fetched twice, and every invocation
\* in flight comes to its end
C30_EveryInvocationReturns ==
    /\ [](\A r \in RunIds : NoPageTwice(runs[r].fetched))
    /\ \A r \in RunIds : (runs[r].pc # "idle") ~> (runs[r].pc = "idle")

\* an invocation has returned completed after fetching both pages of the gallery
C30_Witness ==
    /\ galleryCount = NumItems
    /\ lastEnded.outcome = "completed"
    /\ Len(lastEnded.fetched) = 2
    /\ NoPageTwice(lastEnded.fetched)

====
